---- MODULE Spec2Model ----
(***************************************************************************)
(* Model of the indicator engine and signal aggregator of MCXTradingSystem *)
(* (src/main.py): calculate_technical_indicators enriches a candle frame   *)
(* column by column, generate_signals reduces its last row to              *)
(* BUY / SELL / HOLD; analyze_commodity runs both on the fetched candles   *)
(* and alerts over Telegram; scan_all_commodities analyses every           *)
(* configured commodity in turn.                                           *)
(*                                                                         *)
(* Numbers.  A float is modelled as a fixed-point number: the integer v    *)
(* stands for v / Scale, and a division rounds to the nearest unit.  A     *)
(* frame cell is either <<v>> (a number) or NaN.  Prices of the input      *)
(* candles are whole numbers, so every comparison the aggregator makes     *)
(* between two different values differs by far more than the rounding.     *)
(***************************************************************************)
EXTENDS Integers, Sequences, FiniteSets, TLC

VARIABLES
    df,       \* the DataFrame handed from one method to the next
    result,   \* the dictionary returned by generate_signals (<<>> before)
    pc,       \* "input" | "computed" | "recomputed" | "done" | "returned"
    raised,   \* an exception has propagated to the caller of a method
    errorLog, \* the methods whose handler has written logger.error
    call,     \* the arguments of the call to analyze_commodity or to
              \* scan_all_commodities being served (<<>> when there is none)
    telegram, \* self.telegram is a client (TRUE) or None (FALSE)
    alerts,   \* the calls made to telegram.send_trade_signal, in order
    analysis, \* the dictionary returned by analyze_commodity (<<>> before)
    todo,     \* scan_all_commodities: the symbols the loop has yet to visit
    results,  \* scan_all_commodities: the list being built
    failed    \* scan_all_commodities: the symbols whose analysis raised

engineVars == <<df, result, pc, raised, errorLog>>
alertVars == <<call, telegram, alerts, analysis>>
scanVars == <<todo, results, failed>>

vars ==
    <<df, result, pc, raised, errorLog, call, telegram, alerts, analysis, todo,
      results, failed>>

-----------------------------------------------------------------------------
(* Bounds of the explored inputs *)

MaxLen == 30        \* longest candle series
MaxShort == 2       \* longest of the very short series
MaxStep == 1        \* largest close-to-close move, in price units
MaxTail == 3        \* longest final leg that moves unlike the first leg

Scale == 10 * 10 * 10           \* fixed-point units per 1.0

-----------------------------------------------------------------------------
(* Float cells *)

NaN == <<>>
Num(v) == <<v>>
IsNaN(x) == x = NaN
Val(x) == x[1]

\* a / b rounded to the nearest integer, b > 0
DivR(a, b) == (2 * a + b) \div (2 * b)

Abs(v) == IF v < 0 THEN -v ELSE v

\* x - y, x + y, k * x on cells: NaN propagates
FSub(x, y) == IF IsNaN(x) \/ IsNaN(y) THEN NaN ELSE Num(Val(x) - Val(y))
FAdd(x, y) == IF IsNaN(x) \/ IsNaN(y) THEN NaN ELSE Num(Val(x) + Val(y))
FMulInt(x, k) == IF IsNaN(x) THEN NaN ELSE Num(Val(x) * k)
FAbs(x) == IF IsNaN(x) THEN NaN ELSE Num(Abs(Val(x)))

\* x > y and x < y on cells: every comparison with NaN is false
FGt(x, y) == ~IsNaN(x) /\ ~IsNaN(y) /\ Val(x) > Val(y)
FLt(x, y) == ~IsNaN(x) /\ ~IsNaN(y) /\ Val(x) < Val(y)

RECURSIVE ISqrtBetween(_, _, _)
ISqrtBetween(x, lo, hi) ==
    IF lo >= hi THEN lo
    ELSE LET mid == (lo + hi + 1) \div 2
         IN  IF mid * mid <= x THEN ISqrtBetween(x, mid, hi)
             ELSE ISqrtBetween(x, lo, mid - 1)

\* floor of the square root of x, 0 <= x < 46340^2
ISqrt(x) == ISqrtBetween(x, 0, 46340)

-----------------------------------------------------------------------------
(* pandas Series operations.  A Series is a sequence of cells. *)

Max(a, b) == IF a > b THEN a ELSE b

\* WinLo reaching one row too far back
WinLoWide(i, w) == Max(1, i - w)

\* first index of the window of at most w rows that ends at row i
WinLo(i, w) == Max(1, i - w + 1)

\* sum and number of the non-NaN cells of s[lo..hi]
RECURSIVE SumValid(_, _, _)
SumValid(s, lo, hi) ==
    IF lo > hi THEN 0
    ELSE (IF IsNaN(s[hi]) THEN 0 ELSE Val(s[hi])) + SumValid(s, lo, hi - 1)

CountValid(s, lo, hi) == Cardinality({j \in lo..hi : ~IsNaN(s[j])})

\* RollingMean with min_periods = w: NaN until the window is full
RollingMeanFullWindow(s, w) ==
    [i \in 1..Len(s) |->
        LET lo == WinLo(i, w)
            n  == CountValid(s, lo, i)
        IN  IF n < w THEN NaN ELSE Num(DivR(SumValid(s, lo, i), n))]

\* s.rolling(window=w, min_periods=1).mean(): the mean of the non-NaN cells
\* of the window, NaN when it holds none
RollingMean(s, w) ==
    [i \in 1..Len(s) |->
        LET lo == WinLo(i, w)
            n  == CountValid(s, lo, i)
        IN  IF n < 1 THEN NaN ELSE Num(DivR(SumValid(s, lo, i), n))]

\* sum over s[lo..hi] of (s[j] - m)^2, each square in fixed point
RECURSIVE SumSqDev(_, _, _, _)
SumSqDev(s, m, lo, hi) ==
    IF lo > hi THEN 0
    ELSE (IF IsNaN(s[hi]) THEN 0
          ELSE DivR((Val(s[hi]) - m) * (Val(s[hi]) - m), Scale))
         + SumSqDev(s, m, lo, hi - 1)

\* s.rolling(window=w, min_periods=1).std(): sample standard deviation
\* (ddof = 1), NaN unless the window holds more than one observation
RollingStd(s, w) ==
    [i \in 1..Len(s) |->
        LET lo == WinLo(i, w)
            n  == CountValid(s, lo, i)
        IN  IF n <= 1 THEN NaN
            ELSE LET m   == DivR(SumValid(s, lo, i), n)
                     var == DivR(SumSqDev(s, m, lo, i), n - 1)
                 IN  Num(ISqrt(var * Scale))]

\* s.ewm(span=span, adjust=False, min_periods=1).mean() on a Series without
\* NaN: y[1] = s[1], y[i] = ((1 - alpha) y[i-1] + alpha s[i]) with
\* alpha = 2 / (span + 1); a value equal to the running mean leaves it as is
RECURSIVE EwmFrom(_, _, _)
EwmFrom(s, span, acc) ==
    IF Len(acc) = Len(s) THEN acc
    ELSE LET i   == Len(acc) + 1
             cur == Val(s[i])
             old == Val(acc[i - 1])
             new == IF old = cur THEN old
                    ELSE DivR((span - 1) * old + 2 * cur, span + 1)
         IN  EwmFrom(s, span, Append(acc, Num(new)))

EwmMean(s, span) == IF Len(s) = 0 THEN <<>> ELSE EwmFrom(s, span, <<s[1]>>)

\* s.diff() and s.shift(): the first row has no predecessor
Diff(s) == [i \in 1..Len(s) |-> IF i = 1 THEN NaN ELSE FSub(s[i], s[i - 1])]
Shift(s) == [i \in 1..Len(s) |-> IF i = 1 THEN NaN ELSE s[i - 1]]

\* a - b, a + b, a * k, abs(a) row by row
SeriesSub(a, b) == [i \in 1..Len(a) |-> FSub(a[i], b[i])]
SeriesAdd(a, b) == [i \in 1..Len(a) |-> FAdd(a[i], b[i])]
SeriesMulInt(a, k) == [i \in 1..Len(a) |-> FMulInt(a[i], k)]
SeriesAbs(a) == [i \in 1..Len(a) |-> FAbs(a[i])]

\* delta.where(delta > 0, 0) and -delta.where(delta < 0, 0)
GainOf(delta) ==
    [i \in 1..Len(delta) |-> IF FGt(delta[i], Num(0)) THEN delta[i] ELSE Num(0)]
LossOf(delta) ==
    [i \in 1..Len(delta) |->
        IF FLt(delta[i], Num(0)) THEN Num(-Val(delta[i])) ELSE Num(0)]

\* s.replace(0, np.nan)
ReplaceZeroByNaN(s) == [i \in 1..Len(s) |-> IF s[i] = Num(0) THEN NaN ELSE s[i]]

\* FillNa that fills nothing
FillNaSkipped(s, v) == s

\* s.fillna(v)
FillNa(s, v) == [i \in 1..Len(s) |-> IF IsNaN(s[i]) THEN Num(v) ELSE s[i]]

\* a / b row by row (b holds no zero where it is used)
SeriesDiv(a, b) ==
    [i \in 1..Len(a) |->
        IF IsNaN(a[i]) \/ IsNaN(b[i]) THEN NaN
        ELSE Num(DivR(Val(a[i]) * Scale, Val(b[i])))]

\* 100 - (100 / (1 + rs)) row by row
RsiOf(rs) ==
    [i \in 1..Len(rs) |->
        IF IsNaN(rs[i]) THEN NaN
        ELSE Num(100 * Scale - DivR(100 * Scale * Scale, Scale + Val(rs[i])))]

\* pd.concat([a, b, c], axis=1).max(axis=1): the largest non-NaN cell of the
\* row, NaN when all three are NaN
RowMax3(a, b, c) ==
    [i \in 1..Len(a) |->
        LET cells == {x \in {a[i], b[i], c[i]} : ~IsNaN(x)}
        IN  IF cells = {} THEN NaN
            ELSE CHOOSE x \in cells : \A y \in cells : Val(x) >= Val(y)]

-----------------------------------------------------------------------------
(* DataFrames.  none is TRUE for Python's None; otherwise the frame has    *)
(* rows rows and the columns DOMAIN col, each a Series of rows cells.      *)

NoneFrame == [none |-> TRUE, rows |-> 0, col |-> <<>>]

Columns(d) == DOMAIN d.col

\* df is None or df.empty
NoneOrEmpty(d) == d.none \/ d.rows = 0 \/ Columns(d) = {}

\* df[name] = series
SetCol(d, name, series) == [d EXCEPT !.col = (name :> series) @@ d.col]

\* df.iloc[-1]
LastRow(d) == [c \in Columns(d) |-> d.col[c][d.rows]]

-----------------------------------------------------------------------------
(* calculate_technical_indicators *)

\* lines 270-296: the columns computed from 'close'
CloseIndicators(d) ==
    LET close   == d.col["close"]
        sma10   == RollingMean(close, 10)
        sma20   == RollingMean(close, 20)
        sma50   == RollingMean(close, 50)
        ema12   == EwmMean(close, 12)
        ema26   == EwmMean(close, 26)
        macd    == SeriesSub(ema12, ema26)
        signal  == EwmMean(macd, 9)
        hist    == SeriesSub(macd, signal)
        delta   == Diff(close)
        gain    == RollingMean(GainOf(delta), 14)
        loss    == RollingMean(LossOf(delta), 14)
        rs      == SeriesDiv(gain, ReplaceZeroByNaN(loss))
        rsi     == FillNa(RsiOf(rs), 50 * Scale)
        middle  == RollingMean(close, 20)
        bb_std  == RollingStd(close, 20)
        upper   == SeriesAdd(middle, SeriesMulInt(bb_std, 2))
        lower   == SeriesSub(middle, SeriesMulInt(bb_std, 2))
    IN  [d EXCEPT !.col =
            [c \in {"SMA_10", "SMA_20", "SMA_50", "EMA_12", "EMA_26", "MACD",
                    "Signal", "MACD_Histogram", "RSI", "BB_Middle",
                    "BB_Upper", "BB_Lower"} |->
                CASE c = "SMA_10" -> sma10
                  [] c = "SMA_20" -> sma20
                  [] c = "SMA_50" -> sma50
                  [] c = "EMA_12" -> ema12
                  [] c = "EMA_26" -> ema26
                  [] c = "MACD" -> macd
                  [] c = "Signal" -> signal
                  [] c = "MACD_Histogram" -> hist
                  [] c = "RSI" -> rsi
                  [] c = "BB_Middle" -> middle
                  [] c = "BB_Upper" -> upper
                  [] c = "BB_Lower" -> lower] @@ d.col]

\* lines 298-304: Average True Range
AtrColumn(d) ==
    LET high       == d.col["high"]
        low        == d.col["low"]
        prev       == Shift(d.col["close"])
        high_low   == SeriesSub(high, low)
        high_close == SeriesAbs(SeriesSub(high, prev))
        low_close  == SeriesAbs(SeriesSub(low, prev))
        true_range == RowMax3(high_low, high_close, low_close)
    IN  RollingMean(true_range, 14)

\* lines 306-308: Volume Moving Average
WithVolumeSma(d) ==
    IF "volume" \in Columns(d)
    THEN SetCol(d, "Volume_SMA", RollingMean(d.col["volume"], 20))
    ELSE d

\* a frame without its first candle
DropFirstRow(d) ==
    [d EXCEPT !.rows = d.rows - 1,
              !.col = [c \in Columns(d) |-> Tail(d.col[c])]]

\* CalcTry that trims the warm-up candle (the row whose bands are NaN) off
\* the frame it returns
CalcTryTrimmed(d) ==
    IF NoneOrEmpty(d) THEN [exc |-> FALSE, df |-> d]
    ELSE IF "close" \notin Columns(d) THEN [exc |-> TRUE, df |-> d]
    ELSE LET d1 == CloseIndicators(d)
         IN  IF "high" \notin Columns(d) \/ "low" \notin Columns(d)
             THEN [exc |-> TRUE, df |-> d1]
             ELSE [exc |-> FALSE,
                   df |-> DropFirstRow(
                            WithVolumeSma(SetCol(d1, "ATR", AtrColumn(d1))))]

\* lines 264-310, the body of the try.  The frame is enriched in place, so
\* a KeyError on a missing input column leaves the columns assigned before
\* it: exc tells whether the body raised, df is the frame as it is then.
CalcTry(d) ==
    IF NoneOrEmpty(d) THEN [exc |-> FALSE, df |-> d]
    ELSE IF "close" \notin Columns(d) THEN [exc |-> TRUE, df |-> d]
    ELSE LET d1 == CloseIndicators(d)
         IN  IF "high" \notin Columns(d) \/ "low" \notin Columns(d)
             THEN [exc |-> TRUE, df |-> d1]
             ELSE [exc |-> FALSE,
                   df |-> WithVolumeSma(SetCol(d1, "ATR", AtrColumn(d1)))]

\* lines 312-315: except Exception: log the error, return the frame
CalcExcept(t) == [raised |-> FALSE, logged |-> t.exc, df |-> t.df]

\* The whole method, as its caller sees it
CalcOutcome(d) == CalcExcept(CalcTry(d))

\* the frame the method returns
CalcIndicators(d) == CalcOutcome(d).df

-----------------------------------------------------------------------------
(* generate_signals *)

\* The tag strings of lines 352-372 and the words of lines 375-376, as
\* sequences of characters
\* 'Bullish: SMA10 > SMA20'
TagSmaBull ==
    <<"B", "u", "l", "l", "i", "s", "h", ":", " ", "S", "M", "A", "1", "0",
      " ", ">", " ", "S", "M", "A", "2", "0">>
\* 'Bearish: SMA10 < SMA20'
TagSmaBear ==
    <<"B", "e", "a", "r", "i", "s", "h", ":", " ", "S", "M", "A", "1", "0",
      " ", "<", " ", "S", "M", "A", "2", "0">>
\* 'Bullish: MACD above Signal'
TagMacdBull ==
    <<"B", "u", "l", "l", "i", "s", "h", ":", " ", "M", "A", "C", "D", " ",
      "a", "b", "o", "v", "e", " ", "S", "i", "g", "n", "a", "l">>
\* 'Bearish: MACD below Signal'
TagMacdBear ==
    <<"B", "e", "a", "r", "i", "s", "h", ":", " ", "M", "A", "C", "D", " ",
      "b", "e", "l", "o", "w", " ", "S", "i", "g", "n", "a", "l">>
\* 'Oversold: RSI < 30'
TagRsiOversold ==
    <<"O", "v", "e", "r", "s", "o", "l", "d", ":", " ", "R", "S", "I", " ",
      "<", " ", "3", "0">>
\* 'Overbought: RSI > 70'
TagRsiOverbought ==
    <<"O", "v", "e", "r", "b", "o", "u", "g", "h", "t", ":", " ", "R", "S",
      "I", " ", ">", " ", "7", "0">>
\* 'Near Lower Band: Potential bounce'
TagBandLower ==
    <<"N", "e", "a", "r", " ", "L", "o", "w", "e", "r", " ", "B", "a", "n",
      "d", ":", " ", "P", "o", "t", "e", "n", "t", "i", "a", "l", " ", "b",
      "o", "u", "n", "c", "e">>
\* 'Near Upper Band: Potential reversal'
TagBandUpper ==
    <<"N", "e", "a", "r", " ", "U", "p", "p", "e", "r", " ", "B", "a", "n",
      "d", ":", " ", "P", "o", "t", "e", "n", "t", "i", "a", "l", " ", "r",
      "e", "v", "e", "r", "s", "a", "l">>
\* 'Bullish'
WordBullish ==
    <<"B", "u", "l", "l", "i", "s", "h">>
\* 'Oversold'
WordOversold ==
    <<"O", "v", "e", "r", "s", "o", "l", "d">>
\* 'bounce'
WordBounce ==
    <<"b", "o", "u", "n", "c", "e">>
\* 'Bearish'
WordBearish ==
    <<"B", "e", "a", "r", "i", "s", "h">>
\* 'Overbought'
WordOverbought ==
    <<"O", "v", "e", "r", "b", "o", "u", "g", "h", "t">>
\* 'reversal'
WordReversal ==
    <<"r", "e", "v", "e", "r", "s", "a", "l">>

\* Python's  needle in s  on strings
Contains(needle, s) ==
    \E k \in 0..(Len(s) - Len(needle)) : SubSeq(s, k + 1, k + Len(needle)) = needle

\* line 328: fewer than 20 candles is not enough
MinCandles == 20

\* lines 336-337
RequiredCols ==
    <<"SMA_10", "SMA_20", "MACD", "Signal", "MACD_Histogram", "RSI", "close",
      "BB_Lower", "BB_Upper">>

\* line 338: the required columns that are absent or NaN in the last row
MissingCols(d) ==
    LET latest == LastRow(d)
        Missing(c) == c \notin Columns(d) \/ IsNaN(latest[c])
    IN  SelectSeq(RequiredCols, Missing)

\* round(float(x), digits): half-to-even on the decimal digits kept; NaN
\* stays NaN
RoundTo(x, digits) ==
    LET unit == Scale \div (10 ^ digits)
    IN  IF IsNaN(x) THEN NaN
        ELSE IF unit <= 1 THEN x
        ELSE LET q == Val(x) \div unit
                 r == Val(x) % unit
             IN  IF 2 * r < unit THEN Num(q * unit)
                 ELSE IF 2 * r > unit THEN Num((q + 1) * unit)
                 ELSE IF q % 2 = 0 THEN Num(q * unit)
                 ELSE Num((q + 1) * unit)

\* SmaTag with the two averages swapped
SmaTagSwapped(latest) ==
    IF FGt(latest["SMA_20"], latest["SMA_10"]) THEN <<TagSmaBull>>
    ELSE IF FLt(latest["SMA_20"], latest["SMA_10"]) THEN <<TagSmaBear>>
    ELSE <<>>

\* lines 350-372: the tags of the last row, one indicator group after the
\* other
SmaTag(latest) ==
    IF FGt(latest["SMA_10"], latest["SMA_20"]) THEN <<TagSmaBull>>
    ELSE IF FLt(latest["SMA_10"], latest["SMA_20"]) THEN <<TagSmaBear>>
    ELSE <<>>

MacdTag(latest) ==
    IF FGt(latest["MACD"], latest["Signal"])
       /\ FGt(latest["MACD_Histogram"], Num(0)) THEN <<TagMacdBull>>
    ELSE IF FLt(latest["MACD"], latest["Signal"])
            /\ FLt(latest["MACD_Histogram"], Num(0)) THEN <<TagMacdBear>>
    ELSE <<>>

RsiTag(latest) ==
    IF FLt(latest["RSI"], Num(30 * Scale)) THEN <<TagRsiOversold>>
    ELSE IF FGt(latest["RSI"], Num(70 * Scale)) THEN <<TagRsiOverbought>>
    ELSE <<>>

BandTag(latest) ==
    IF FLt(latest["close"], latest["BB_Lower"]) THEN <<TagBandLower>>
    ELSE IF FGt(latest["close"], latest["BB_Upper"]) THEN <<TagBandUpper>>
    ELSE <<>>

Signals(latest) ==
    SmaTag(latest) \o MacdTag(latest) \o RsiTag(latest) \o BandTag(latest)

\* IsBullishTag looking for 'Band' where the code looks for 'bounce'
IsBullishTagBand(s) ==
    Contains(WordBullish, s) \/ Contains(WordOversold, s)
    \/ Contains(<<"B", "a", "n", "d">>, s)

\* lines 375-376
IsBullishTag(s) ==
    Contains(WordBullish, s) \/ Contains(WordOversold, s) \/ Contains(WordBounce, s)
IsBearishTag(s) ==
    Contains(WordBearish, s) \/ Contains(WordOverbought, s)
    \/ Contains(WordReversal, s)

BullishCount(signals) == Len(SelectSeq(signals, IsBullishTag))
BearishCount(signals) == Len(SelectSeq(signals, IsBearishTag))

\* OverallSignal deciding a tie of two or more tags for the first side tested
OverallSignalTies(bullish, bearish) ==
    IF bullish >= bearish /\ bullish >= 2 THEN "BUY"
    ELSE IF bearish >= bullish /\ bearish >= 2 THEN "SELL"
    ELSE "HOLD"

\* lines 378-383
OverallSignal(bullish, bearish) ==
    IF bullish > bearish /\ bullish >= 2 THEN "BUY"
    ELSE IF bearish > bullish /\ bearish >= 2 THEN "SELL"
    ELSE "HOLD"

\* TooShort with the gate one candle early
TooShortOffByOne(d) == NoneOrEmpty(d) \/ d.rows < MinCandles - 1

\* line 328: df is None or df.empty or len(df) < 20
TooShort(d) == NoneOrEmpty(d) \/ d.rows < MinCandles

\* lines 327-400, the body of the try.  exc tells whether the body raised
\* and msg is str(e) then; otherwise result is the dictionary returned.
\* The reason strings are kept as tuples: the text, then what the f-string
\* interpolates.
GenTry(d) ==
    IF TooShort(d)
    THEN [exc |-> FALSE, msg |-> "",
          result |-> [signal |-> "HOLD", reason |-> <<"Insufficient data">>]]
    ELSE
    LET latest  == LastRow(d)
        missing == MissingCols(d)
    IN  IF missing # <<>>
        THEN [exc |-> FALSE, msg |-> "",
              result |->
                [signal |-> "HOLD",
                 reason |-> <<"Missing indicators: ", missing>>,
                 indicators |->
                   [price |-> IF "close" \in Columns(d) THEN latest["close"]
                              ELSE Num(0)]]]
        ELSE
        LET signals == Signals(latest)
            bullish == BullishCount(signals)
            bearish == BearishCount(signals)
        IN  IF "ATR" \notin Columns(d)
            THEN \* line 393 raises KeyError
                 [exc |-> TRUE, msg |-> "'ATR'", result |-> <<>>]
            ELSE [exc |-> FALSE, msg |-> "",
                  result |->
                    [signal |-> OverallSignal(bullish, bearish),
                     indicators |->
                       [price  |-> latest["close"],
                        SMA_10 |-> RoundTo(latest["SMA_10"], 2),
                        SMA_20 |-> RoundTo(latest["SMA_20"], 2),
                        RSI    |-> RoundTo(latest["RSI"], 2),
                        MACD   |-> RoundTo(latest["MACD"], 4),
                        ATR    |-> RoundTo(latest["ATR"], 2)],
                     signals |-> signals,
                     bullish_count |-> bullish,
                     bearish_count |-> bearish]]

\* GenExcept letting the exception through: the caller gets no dictionary
GenExceptReraise(t) == [raised |-> t.exc, logged |-> FALSE, result |-> t.result]

\* lines 402-405: except Exception: log the error, return HOLD with str(e)
GenExcept(t) ==
    [raised |-> FALSE, logged |-> t.exc,
     result |-> IF t.exc THEN [signal |-> "HOLD", error |-> t.msg]
                ELSE t.result]

\* The whole method, as its caller sees it
GenOutcome(d) == GenExcept(GenTry(d))

\* the dictionary the method returns
GenSignals(d) == GenOutcome(d).result

-----------------------------------------------------------------------------
(* Input frames: what the data-fetch collaborator may hand over.  The      *)
(* closes start at a base price, move by step1 per candle and by step2     *)
(* over the last tail candles.                                             *)

Min(a, b) == IF a < b THEN a ELSE b

ClosePrice(base, step1, step2, tail, n, i) ==
    LET turn == Max(n - 1 - tail, 0)
    IN  base + step1 * Min(i - 1, turn) + step2 * Max(i - 1 - turn, 0)

\* series lengths: the very short ones, those around the 20-candle gate,
\* the 25 candles of the end-to-end scenario, and the long ones
Lengths == (0..MaxShort) \cup {19, 20, 21, 25} \cup (30..MaxLen)

\* price of the first candle, and how the high and low columns look: equal
\* to the close, one price unit around it, all NaN, or not delivered;
\* "noclose" is a feed that delivers no close column
Feeds ==
    {<<100, "flat">>, <<150, "flat">>, <<100, "spread">>, <<100, "nan">>,
     <<100, "absent">>, <<100, "noclose">>}

\* a frame of n candles
CandleFrame(base, step1, step2, tail, n, hl) ==
    LET close == [i \in 1..n |-> Num(Scale * ClosePrice(base, step1, step2, tail, n, i))]
        wide  == IF hl = "spread" THEN Scale ELSE 0
        ohlcv == [c \in {"open", "high", "low", "close", "volume"} |->
                    CASE c = "open" -> close
                      [] c = "close" -> close
                      [] c = "high" ->
                           [i \in 1..n |-> IF hl = "nan" THEN NaN
                                           ELSE Num(Val(close[i]) + wide)]
                      [] c = "low" ->
                           [i \in 1..n |-> IF hl = "nan" THEN NaN
                                           ELSE Num(Val(close[i]) - wide)]
                      [] c = "volume" -> [i \in 1..n |-> Num(1000 * Scale)]]
    IN  [none |-> FALSE, rows |-> n,
         col |-> IF hl = "absent"
                 THEN [c \in {"open", "close", "volume"} |-> ohlcv[c]]
                 ELSE IF hl = "noclose"
                 THEN [c \in {"open", "high", "low", "volume"} |-> ohlcv[c]]
                 ELSE ohlcv]

\* the frames of the given lengths, and no frame at all
FramesOf(lengths) ==
    {NoneFrame} \cup
    {CandleFrame(feed[1], step1, step2, tail, n, feed[2]) :
        feed \in Feeds, step1 \in -MaxStep..MaxStep, step2 \in -MaxStep..MaxStep,
        tail \in 0..MaxTail, n \in lengths}

InputFrames == FramesOf(Lengths)

-----------------------------------------------------------------------------
(* The state machine: a caller holds a frame and calls the two methods. *)

NoResult == <<>>

\* the collaborators of analyze_commodity and scan_all_commodities, which
\* the two methods alone never touch
Idle ==
    /\ call = <<>>
    /\ telegram = FALSE
    /\ alerts = <<>>
    /\ analysis = NoResult
    /\ todo = <<>>
    /\ results = <<>>
    /\ failed = {}

Init ==
    /\ df \in InputFrames
    /\ result = NoResult
    /\ pc = "input"
    /\ raised = FALSE
    /\ errorLog = {}
    /\ Idle

\* what a call leaves in the log
Logged(log, o, method) == IF o.logged THEN log \cup {method} ELSE log

\* df = calculate_technical_indicators(df); a caller may call it again on
\* the frame it got back
CalculateTechnicalIndicators ==
    /\ pc \in {"input", "computed"}
    /\ \E o \in {CalcOutcome(df)} :
           /\ df' = o.df
           /\ raised' = (raised \/ o.raised)
           /\ errorLog' = Logged(errorLog, o, "calculate_technical_indicators")
    /\ pc' = IF pc = "input" THEN "computed" ELSE "recomputed"
    /\ UNCHANGED <<result, alertVars, scanVars>>

\* signals = generate_signals(df), on a raw or on an enriched frame
GenerateSignals ==
    /\ pc \in {"input", "computed", "recomputed"}
    /\ \E o \in {GenOutcome(df)} :
           /\ result' = o.result
           /\ raised' = (raised \/ o.raised)
           /\ errorLog' = Logged(errorLog, o, "generate_signals")
    /\ pc' = "done"
    /\ UNCHANGED <<df, alertVars, scanVars>>

Next == CalculateTechnicalIndicators \/ GenerateSignals

Spec == Init /\ [][Next]_vars

-----------------------------------------------------------------------------
(* analyze_commodity: fetch, enrich, aggregate, alert.  The timestamp of   *)
(* the returned dictionary is left out.                                    *)

\* lines 43-52: symbol and security id, in the order of the dict
COMMODITIES ==
    << <<"GOLD", 112577>>, <<"SILVER", 112576>>, <<"CRUDEOIL", 26765>>,
       <<"NATURALGAS", 26761>>, <<"COPPER", 27165>>, <<"ZINC", 27159>>,
       <<"LEAD", 27161>>, <<"NICKEL", 27163>> >>

\* COMMODITIES.keys()
Keys == [k \in 1..Len(COMMODITIES) |-> COMMODITIES[k][1]]

\* COMMODITIES.get(symbol) finds an id
IsListed(symbol) == \E k \in 1..Len(COMMODITIES) : COMMODITIES[k][1] = symbol

\* get_market_quote returns None
NoQuote == <<>>

\* the quotes the market feed may answer with
Quotes == {NoQuote, [LTP |-> Num(100 * Scale)]}

\* lines 163-185: None for an unlisted symbol or an unusable answer
GetMarketQuote(symbol, feed) == IF IsListed(symbol) THEN feed ELSE NoQuote

\* lines 200-251: None for an unlisted symbol, for an unusable answer and
\* for an answer without candles, else the candles
GetHistoricalData(symbol, response) ==
    IF ~IsListed(symbol) THEN NoneFrame
    ELSE IF NoneOrEmpty(response) THEN NoneFrame
    ELSE response

\* SendAlert without the test on the signal: whatever dictionary carries
\* indicators and tags is sent
SendAlertAnySignal(symbol, signals, send_alert, client, fails) ==
    IF send_alert /\ client /\ {"indicators", "signals"} \subseteq DOMAIN signals
    THEN [calls |-> << [symbol |-> symbol, signal |-> signals.signal,
                        data |-> ("signals" :> signals.signals) @@ signals.indicators,
                        delivered |-> ~fails] >>,
          logged |-> fails]
    ELSE [calls |-> <<>>, logged |-> FALSE]

\* lines 443-456: the calls made to telegram.send_trade_signal, and whether
\* the handler logged a failure.  fails: the call raises.
SendAlert(symbol, signals, send_alert, client, fails) ==
    IF send_alert /\ client /\ signals.signal # "HOLD"
    THEN [calls |-> << [symbol |-> symbol, signal |-> signals.signal,
                        data |-> ("signals" :> signals.signals) @@ signals.indicators,
                        delivered |-> ~fails] >>,
          logged |-> fails]
    ELSE [calls |-> <<>>, logged |-> FALSE]

\* lines 461-466
NoDataAnalysis(symbol) ==
    [symbol |-> symbol, error |-> "Unable to fetch historical data"]

\* The whole method.  env holds what its collaborators may do during the
\* call: the answers of the data feed, those of the quote feed, and
\* whether sending an alert raises.
AnalyzeCommodity(symbol, send_alert, env) ==
    \E response \in env.responses :
    \E fetched \in {GetHistoricalData(symbol, response)} :
        IF ~NoneOrEmpty(fetched)
        THEN \E c \in {CalcOutcome(fetched)} :
             \E g \in {GenOutcome(c.df)} :
             \E feed \in env.quotes, fails \in env.fails :
             \E a \in {SendAlert(symbol, g.result, send_alert, telegram, fails)} :
                /\ df' = c.df
                /\ result' = g.result
                /\ analysis' = [symbol |-> symbol,
                                current_quote |-> GetMarketQuote(symbol, feed),
                                analysis |-> g.result,
                                data_points |-> c.df.rows]
                /\ alerts' = alerts \o a.calls
                /\ errorLog' =
                     Logged(Logged(Logged(errorLog,
                         c, "calculate_technical_indicators"),
                         g, "generate_signals"),
                         a, "analyze_commodity")
                /\ raised' = (raised \/ c.raised \/ g.raised)
        ELSE /\ df' = fetched
             /\ analysis' = NoDataAnalysis(symbol)
             /\ UNCHANGED <<result, alerts, errorLog, raised>>

\* the answers explored for one analysis: none, no candles, one candle short
\* of the gate, and 25 candles
Responses == FramesOf({0, MinCandles - 1, 25})

\* anything may happen during one analysis
AnyAnswer == [responses |-> Responses, quotes |-> Quotes, fails |-> BOOLEAN]

\* the symbols a user may ask for: a listed one and an unlisted one
AnalyzedSymbols == {"GOLD", "BRASS"}

InitAnalyze ==
    /\ df = NoneFrame
    /\ result = NoResult
    /\ pc = "input"
    /\ raised = FALSE
    /\ errorLog = {}
    /\ call = <<>>
    /\ telegram \in BOOLEAN
    /\ alerts = <<>>
    /\ analysis = NoResult
    /\ todo = <<>>
    /\ results = <<>>
    /\ failed = {}

\* system.analyze_commodity(symbol, send_alert)
AnalyzeOne ==
    /\ pc = "input"
    /\ \E symbol \in AnalyzedSymbols, send_alert \in BOOLEAN :
           /\ call' = [symbol |-> symbol, send_alert |-> send_alert]
           /\ AnalyzeCommodity(symbol, send_alert, AnyAnswer)
    /\ pc' = "returned"
    /\ UNCHANGED <<telegram, scanVars>>

NextAnalyze == AnalyzeOne

SpecAnalyze == InitAnalyze /\ [][NextAnalyze]_vars

-----------------------------------------------------------------------------
(* scan_all_commodities: one analysis per configured commodity *)

\* what the collaborators do while commodity number k is analysed: a rising
\* market, no answer, a falling market, too few candles, no high and low, a
\* flat market, no close, a rising market with a price range; every second
\* alert fails to go out
MarketAnswer(k) ==
    CASE k = 1 -> CandleFrame(100, 1, 1, 0, 25, "flat")
      [] k = 2 -> NoneFrame
      [] k = 3 -> CandleFrame(150, -1, -1, 0, 25, "flat")
      [] k = 4 -> CandleFrame(100, 1, 1, 0, MinCandles - 1, "flat")
      [] k = 5 -> CandleFrame(100, 1, 1, 0, 25, "absent")
      [] k = 6 -> CandleFrame(100, 0, 0, 0, 25, "flat")
      [] k = 7 -> CandleFrame(100, 1, 1, 0, 25, "noclose")
      [] OTHER -> CandleFrame(100, 1, 1, 0, 25, "spread")

ScanAnswer(k) ==
    [responses |-> {MarketAnswer(k)},
     quotes |-> {[LTP |-> Num((100 + k) * Scale)]},
     fails |-> {k % 2 = 0}]

\* str(e) of the exceptions an analysis may raise
AnalysisErrors == {"unexpected"}

\* lines 489-492
ErrorEntry(symbol, e) == [symbol |-> symbol, error |-> e]

\* NextSymbols giving up the scan after a failed analysis
NextSymbolsAbort(rest, raises) == IF raises THEN <<>> ELSE Tail(rest)

\* line 481: the for loop moves on to the next key, whether the body
\* raised or not
NextSymbols(rest, raises) == Tail(rest)

\* position in COMMODITIES of the symbol the loop is at
Position == Len(Keys) - Len(todo) + 1

InitScan ==
    /\ df = NoneFrame
    /\ result = NoResult
    /\ pc = "input"
    /\ raised = FALSE
    /\ errorLog = {}
    /\ call = <<>>
    /\ telegram \in BOOLEAN
    /\ alerts = <<>>
    /\ analysis = NoResult
    /\ todo = <<>>
    /\ results = <<>>
    /\ failed = {}

\* system.scan_all_commodities(send_alerts): results = [], iterate the keys
StartScan ==
    /\ pc = "input"
    /\ \E send_alerts \in BOOLEAN : call' = [send_alerts |-> send_alerts]
    /\ todo' = Keys
    /\ results' = <<>>
    /\ pc' = "scanning"
    /\ UNCHANGED <<df, result, raised, errorLog, telegram, alerts, analysis, failed>>

\* lines 482-486: the analysis returns and is appended
ScanAnalysed ==
    /\ pc = "scanning" /\ todo # <<>>
    /\ AnalyzeCommodity(Head(todo), call.send_alerts, ScanAnswer(Position))
    /\ results' = Append(results, analysis')
    /\ todo' = NextSymbols(todo, FALSE)
    /\ UNCHANGED <<pc, call, telegram, failed>>

\* lines 487-492: the analysis raises and an error entry is appended
ScanFailed ==
    /\ pc = "scanning" /\ todo # <<>>
    /\ \E e \in AnalysisErrors : results' = Append(results, ErrorEntry(Head(todo), e))
    /\ failed' = failed \cup {Head(todo)}
    /\ errorLog' = errorLog \cup {"scan_all_commodities"}
    /\ todo' = NextSymbols(todo, TRUE)
    /\ UNCHANGED <<df, result, pc, raised, call, telegram, alerts, analysis>>

\* line 496: return results
ScanReturn ==
    /\ pc = "scanning" /\ todo = <<>>
    /\ pc' = "returned"
    /\ UNCHANGED <<df, result, raised, errorLog, alertVars, scanVars>>

NextScan == StartScan \/ ScanFailed \/ ScanAnalysed \/ ScanReturn

\* The scan runs on one thread that nothing suspends: as long as a step is
\* possible, one is taken.
SpecScan == InitScan /\ [][NextScan]_vars /\ WF_vars(NextScan)

-----------------------------------------------------------------------------
(* Vocabulary of the properties *)

\* the frame went through calculate_technical_indicators
Enriched == ~df.none /\ df.rows > 0 /\ "SMA_10" \in Columns(df)

\* generate_signals has returned, on an enriched frame
Aggregated == pc = "done" /\ Enriched

\* the columns generate_signals reads
ReadCols ==
    {"SMA_10", "SMA_20", "MACD", "Signal", "MACD_Histogram", "RSI", "close",
     "BB_Lower", "BB_Upper", "ATR"}

\* the last row carries a number in each of the nine compared columns, and
\* the ATR column exists
IndicatorsDefined ==
    /\ ReadCols \subseteq Columns(df)
    /\ \A c \in ReadCols \ {"ATR"} : ~IsNaN(df.col[c][df.rows])

\* the candle columns are all delivered and hold numbers
CandlesComplete ==
    /\ {"open", "high", "low", "close"} \subseteq Columns(df)
    /\ \A c \in {"open", "high", "low", "close"} :
          \A i \in 1..df.rows : ~IsNaN(df.col[c][i])

Latest(c) == df.col[c][df.rows]

Range(seq) == {seq[i] : i \in 1..Len(seq)}

\* the result is the full one of lines 385-398
FullResult ==
    {"signal", "signals", "bullish_count", "bearish_count"} \subseteq DOMAIN result

-----------------------------------------------------------------------------
(* C1: whenever generate_signals returns for a frame that is None, empty   *)
(* or shorter than 20 candles, the result is exactly HOLD with the reason  *)
(* 'Insufficient data' and carries no tags, whether or not the frame was   *)
(* enriched and whatever its last row would have signalled.                *)
C1_ShortSeriesGate ==
    (pc = "done" /\ (df.none \/ df.rows < 20)) =>
        /\ DOMAIN result = {"signal", "reason"}
        /\ result.signal = "HOLD"
        /\ result.reason = <<"Insufficient data">>

\* 19 enriched candles whose last row alone would have been a BUY
C1_Witness ==
    /\ Aggregated
    /\ df.rows = 19
    /\ "ATR" \in Columns(df)
    /\ OverallSignal(BullishCount(Signals(LastRow(df))),
                     BearishCount(Signals(LastRow(df)))) = "BUY"
    /\ result.signal = "HOLD"

(* C2: for a series of at least 20 candles whose indicators are defined,   *)
(* the signal is BUY exactly when bullish_count > bearish_count and        *)
(* bullish_count >= 2, SELL exactly when bearish_count > bullish_count and *)
(* bearish_count >= 2, and HOLD exactly in the remaining cases.            *)
C2_SignalRule ==
    (Aggregated /\ df.rows >= 20 /\ IndicatorsDefined) =>
        /\ FullResult
        /\ LET b == result.bullish_count
               r == result.bearish_count
           IN  /\ result.signal \in {"BUY", "SELL", "HOLD"}
               /\ result.signal = "BUY" <=> (b > r /\ b >= 2)
               /\ result.signal = "SELL" <=> (r > b /\ r >= 2)
               /\ result.signal = "HOLD" <=>
                     ~(b > r /\ b >= 2) /\ ~(r > b /\ r >= 2)

\* two bullish tags against two bearish ones: equal counts, so HOLD
C2_Witness ==
    /\ Aggregated /\ df.rows >= 20 /\ IndicatorsDefined /\ FullResult
    /\ result.bullish_count = 2
    /\ result.bearish_count = 2
    /\ result.signal = "HOLD"

(* C3: the tags follow the tag table: a tag is present exactly when its    *)
(* condition holds on the last row, so a tie gives no tag and a group      *)
(* gives at most one; the tags come in the order SMA, MACD, RSI, bands;    *)
(* bullish_count and bearish_count are the numbers of tags of the bullish  *)
(* and of the bearish class, and together they count every tag, at most 4. *)
TagOrder ==
    <<TagSmaBull, TagSmaBear, TagMacdBull, TagMacdBear, TagRsiOversold,
      TagRsiOverbought, TagBandLower, TagBandUpper>>

BullishClass == {TagSmaBull, TagMacdBull, TagRsiOversold, TagBandLower}
BearishClass == {TagSmaBear, TagMacdBear, TagRsiOverbought, TagBandUpper}

\* position of a tag in the table
TagRank(t) == CHOOSE k \in 1..Len(TagOrder) : TagOrder[k] = t

C3_TagTable ==
    (Aggregated /\ df.rows >= 20 /\ IndicatorsDefined) =>
        /\ FullResult
        /\ LET tags == result.signals
               Has(t) == t \in Range(tags)
               v(c) == Val(Latest(c))
           IN  /\ Range(tags) \subseteq Range(TagOrder)
               /\ Has(TagSmaBull) <=> v("SMA_10") > v("SMA_20")
               /\ Has(TagSmaBear) <=> v("SMA_10") < v("SMA_20")
               /\ Has(TagMacdBull) <=>
                     (v("MACD") > v("Signal") /\ v("MACD_Histogram") > 0)
               /\ Has(TagMacdBear) <=>
                     (v("MACD") < v("Signal") /\ v("MACD_Histogram") < 0)
               /\ Has(TagRsiOversold) <=> v("RSI") < 30 * Scale
               /\ Has(TagRsiOverbought) <=> v("RSI") > 70 * Scale
               /\ Has(TagBandLower) <=> v("close") < v("BB_Lower")
               /\ Has(TagBandUpper) <=> v("close") > v("BB_Upper")
               /\ \A i, j \in 1..Len(tags) :
                     i < j => TagRank(tags[i]) < TagRank(tags[j])
               /\ result.bullish_count =
                     Cardinality({i \in 1..Len(tags) : tags[i] \in BullishClass})
               /\ result.bearish_count =
                     Cardinality({i \in 1..Len(tags) : tags[i] \in BearishClass})
               /\ result.bullish_count + result.bearish_count = Len(tags)
               /\ Len(tags) <= 4

\* every group contributes a tag, of both classes
C3_Witness ==
    /\ Aggregated /\ df.rows >= 20 /\ IndicatorsDefined /\ FullResult
    /\ Len(result.signals) = 4
    /\ result.bullish_count > 0
    /\ result.bearish_count > 0

(* C4: at every candle where the 14-candle average loss is 0, RSI is 100   *)
(* when the average gain is positive and 50 when it is 0 too, and it is    *)
(* never NaN.                                                              *)
C4_RsiZeroLoss ==
    Enriched =>
        LET delta == Diff(df.col["close"])
            gain  == RollingMean(GainOf(delta), 14)
            loss  == RollingMean(LossOf(delta), 14)
        IN  \A i \in 1..df.rows :
                /\ ~IsNaN(df.col["RSI"][i])
                /\ loss[i] = Num(0) =>
                      df.col["RSI"][i] =
                          IF Val(gain[i]) > 0 THEN Num(100 * Scale)
                          ELSE Num(50 * Scale)

(* C5: for at least 20 candles whose open, high, low and close all equal   *)
(* one price P, the last row has SMA_10 = SMA_20 = SMA_50 = EMA_12 =       *)
(* EMA_26 = P, MACD = 0, RSI = 50, BB_Upper = BB_Lower = BB_Middle = P and *)
(* ATR = 0, and generate_signals returns HOLD with no tags.                *)
ConstantCandles ==
    /\ CandlesComplete
    /\ \A c \in {"open", "high", "low", "close"} :
          \A i \in 1..df.rows : df.col[c][i] = df.col["close"][1]

C5_ConstantPrice ==
    (Enriched /\ df.rows >= 20 /\ ConstantCandles) =>
        LET P == df.col["close"][1]
        IN  /\ \A c \in {"SMA_10", "SMA_20", "SMA_50", "EMA_12", "EMA_26",
                         "BB_Middle", "BB_Upper", "BB_Lower"} : Latest(c) = P
            /\ Latest("MACD") = Num(0)
            /\ Latest("RSI") = Num(50 * Scale)
            /\ "ATR" \in Columns(df)
            /\ Latest("ATR") = Num(0)
            /\ pc = "done" =>
                  /\ FullResult
                  /\ result.signal = "HOLD"
                  /\ result.signals = <<>>

C5_Witness ==
    /\ Aggregated /\ df.rows >= 20 /\ ConstantCandles
    /\ df.col["close"][1] = Num(150 * Scale)
    /\ result.signal = "HOLD"

(* C6: for 25 candles whose closes rise from 100 to 124 in unit steps, the *)
(* result carries the tags 'Bullish: SMA10 > SMA20' and 'Bullish: MACD     *)
(* above Signal', bullish_count >= 2 and the signal BUY.                   *)
RisingScenario ==
    /\ ~df.none
    /\ df.rows = 25
    /\ CandlesComplete
    /\ \A i \in 1..25 : df.col["close"][i] = Num((100 + i - 1) * Scale)

C6_EndToEnd ==
    (Aggregated /\ RisingScenario) =>
        /\ FullResult
        /\ TagSmaBull \in Range(result.signals)
        /\ TagMacdBull \in Range(result.signals)
        /\ result.bullish_count >= 2
        /\ result.signal = "BUY"

C6_Witness == Aggregated /\ RisingScenario /\ result.signal = "BUY"

(* C7: for at least 30 candles whose closes rise by one constant positive  *)
(* step, the last row has SMA_10 > SMA_20 and RSI above 50, and the signal *)
(* is not SELL.                                                            *)
Uptrend ==
    /\ ~df.none
    /\ df.rows >= 30
    /\ CandlesComplete
    /\ \E step \in 1..(MaxStep + 1) :
          \A i \in 2..df.rows :
              Val(df.col["close"][i]) - Val(df.col["close"][i - 1]) = step * Scale

C7_MonotonicUptrend ==
    (Enriched /\ Uptrend) =>
        /\ Val(Latest("SMA_10")) > Val(Latest("SMA_20"))
        /\ Val(Latest("RSI")) > 50 * Scale
        /\ pc = "done" => result.signal # "SELL"

(* C8: for a single candle, calculate_technical_indicators runs to its end *)
(* and gives SMA_10 = SMA_20 = SMA_50 = EMA_12 = EMA_26 = the close and    *)
(* ATR = high - low, and generate_signals returns HOLD through the gate.   *)
SingleCandle == ~df.none /\ df.rows = 1 /\ CandlesComplete

C8_SingleCandle ==
    (Enriched /\ SingleCandle) =>
        /\ {"ATR", "Volume_SMA"} \subseteq Columns(df)
        /\ \A c \in {"SMA_10", "SMA_20", "SMA_50", "EMA_12", "EMA_26"} :
              Latest(c) = Latest("close")
        /\ Latest("ATR") = Num(Val(Latest("high")) - Val(Latest("low")))
        /\ pc = "done" =>
              /\ result.signal = "HOLD"
              /\ result.reason = <<"Insufficient data">>

\* one candle with a true range of two price units
C8_Witness ==
    /\ Aggregated /\ SingleCandle
    /\ Latest("ATR") = Num(2 * Scale)
    /\ result.signal = "HOLD"

(* C9: at every candle, the first one included, BB_Upper and BB_Lower are  *)
(* numbers and BB_Upper - BB_Middle = BB_Middle - BB_Lower.                *)
C9_BandSymmetry ==
    Enriched =>
        \A i \in 1..df.rows :
            /\ ~IsNaN(df.col["BB_Upper"][i])
            /\ ~IsNaN(df.col["BB_Lower"][i])
            /\ Val(df.col["BB_Upper"][i]) - Val(df.col["BB_Middle"][i])
                 = Val(df.col["BB_Middle"][i]) - Val(df.col["BB_Lower"][i])

(* C10: for at least 20 candles whose last row lacks a value generate_     *)
(* signals reads (column absent or NaN), ATR included, the result is HOLD  *)
(* with the reason 'Missing indicators' and a list naming missing columns, *)
(* never BUY or SELL.                                                      *)
Undefined(c) == c \notin Columns(df) \/ IsNaN(Latest(c))

C10_MissingIndicator ==
    (pc = "done" /\ ~df.none /\ df.rows >= 20 /\ \E c \in ReadCols : Undefined(c)) =>
        /\ result.signal = "HOLD"
        /\ "reason" \in DOMAIN result
        /\ result.reason[1] = "Missing indicators: "
        /\ result.reason[2] # <<>>
        /\ \A c \in Range(result.reason[2]) : Undefined(c)

(* C11: neither calculate_technical_indicators nor generate_signals ever    *)
(* raises to its caller; whatever the frame (empty, short, columns missing, *)
(* degenerate values) generate_signals returns a dictionary whose signal is *)
(* BUY, SELL or HOLD, and once the handler of either method has run the     *)
(* signal is HOLD.                                                          *)
Methods == {"calculate_technical_indicators", "generate_signals"}

C11_NeverRaises ==
    /\ ~raised
    /\ errorLog \subseteq Methods
    /\ pc = "done" =>
         /\ "signal" \in DOMAIN result
         /\ result.signal \in {"BUY", "SELL", "HOLD"}
         /\ errorLog # {} => result.signal = "HOLD"

\* both handlers have run: no high and low columns, then no ATR to report
C11_Witness ==
    /\ pc = "done"
    /\ errorLog = Methods
    /\ result = [signal |-> "HOLD", error |-> "'ATR'"]

(* C12: calculate_technical_indicators run a second time on the frame it    *)
(* already enriched in place changes nothing: every indicator column and    *)
(* the open/high/low/close/volume columns stay as they were, and            *)
(* generate_signals gives the same signal, tags and counts as it would      *)
(* have after the first run.  No run ever alters a candle column.           *)
CandleCols == {"open", "high", "low", "close", "volume"}

SecondRun == pc = "computed" /\ pc' = "recomputed"

C12_RecomputeIdempotent ==
    [][/\ pc' \in {"computed", "recomputed"} =>
            /\ df'.none = df.none
            /\ ~df.none =>
                 /\ df'.rows = df.rows
                 /\ \A c \in CandleCols \cap Columns(df) : df'.col[c] = df.col[c]
       /\ SecondRun =>
            /\ df' = df
            /\ GenSignals(df') = GenSignals(df)]_vars

\* a second run over 25 enriched candles that give BUY
C12_Witness ==
    /\ pc = "recomputed"
    /\ Enriched /\ df.rows = 25
    /\ ReadCols \subseteq Columns(df)
    /\ GenSignals(df).signal = "BUY"

(* C13: the enriched frame has one row per input candle, in input order,   *)
(* and for N in {10, 20, 50} and every row i SMA_N is a number, the mean   *)
(* of the closes of rows max(first, i - N + 1) .. i: of all closes so far  *)
(* while fewer than N have been seen, of exactly the last N afterwards.    *)
SmaWindows == {10, 20, 50}

SmaName(w) == CASE w = 10 -> "SMA_10" [] w = 20 -> "SMA_20" [] w = 50 -> "SMA_50"

RECURSIVE CloseTotal(_, _)
CloseTotal(from, to) ==
    IF from > to THEN 0 ELSE Val(df.col["close"][from]) + CloseTotal(from + 1, to)

\* v is the fixed-point number nearest to total / count
IsMeanOf(v, total, count) == 2 * Abs(v * count - total) <= count

C13_SmaGrowingWindow ==
    Enriched =>
        /\ \A c \in Columns(df) : Len(df.col[c]) = df.rows
        /\ \A w \in SmaWindows : \A i \in 1..df.rows :
             LET sma   == df.col[SmaName(w)][i]
                 seen  == IF i < w THEN i ELSE w
             IN  /\ ~IsNaN(sma)
                 /\ IsMeanOf(Val(sma), CloseTotal(i - seen + 1, i), seen)

\* 30 moving candles: SMA_10 and SMA_20 run on full windows and differ,
\* SMA_50 still averages everything seen
C13_Witness ==
    /\ Enriched /\ df.rows = 30
    /\ df.col["SMA_10"][30] # df.col["SMA_20"][30]
    /\ df.col["SMA_20"][30] # df.col["SMA_50"][30]
    /\ df.col["SMA_10"][5] # df.col["close"][5]

(* C14: when analyze_commodity has returned, a call to send_trade_signal   *)
(* was made only if send_alert was true, a Telegram client is configured,  *)
(* candles were fetched and the signal is BUY or SELL; none was made for   *)
(* HOLD (insufficient data, missing indicators, error) or without data; at *)
(* most one was made; and whether or not the call failed, the dictionary   *)
(* returned is the analysis of the fetched candles.                        *)
Returned == pc = "returned"

NoData == analysis = NoDataAnalysis(call.symbol)

C14_AlertOnlyOnTrade ==
    Returned =>
        /\ ~raised
        /\ Len(alerts) <= 1
        /\ alerts # <<>> =>
             /\ call.send_alert /\ telegram /\ ~NoData
             /\ result.signal \in {"BUY", "SELL"}
             /\ alerts[1].symbol = call.symbol
             /\ alerts[1].signal = result.signal
        /\ NoData => result = NoResult /\ df.none
        /\ ~NoData =>
             /\ DOMAIN analysis = {"symbol", "current_quote", "analysis", "data_points"}
             /\ analysis.symbol = call.symbol
             /\ analysis.analysis = result
             /\ analysis.data_points = df.rows
             /\ "signal" \in DOMAIN result

\* a SELL alert whose sending failed, and the analysis returned all the same
C14_Witness ==
    /\ Returned
    /\ Len(alerts) = 1 /\ ~alerts[1].delivered
    /\ "analyze_commodity" \in errorLog
    /\ analysis.analysis.signal = "SELL"
    /\ analysis.data_points = 25

(* C15: scan_all_commodities terminates; the list it returns holds one     *)
(* entry per commodity of COMMODITIES, in that order, each carrying its    *)
(* symbol; a commodity whose analysis raised has an error entry, and the   *)
(* loop goes on with the commodities after it, in order.                   *)
Scanning == pc \in {"scanning", "returned"}

\* the entries so far are those of the first keys, in order, and the loop
\* is left with exactly the keys after them
InOrder ==
    /\ Len(results) + Len(todo) = Len(Keys)
    /\ todo = SubSeq(Keys, Len(results) + 1, Len(Keys))
    /\ \A k \in 1..Len(results) :
         /\ results[k].symbol = Keys[k]
         /\ Keys[k] \in failed <=>
              (\E e \in AnalysisErrors : results[k] = ErrorEntry(Keys[k], e))

C15_ScanCompletes ==
    /\ <>(pc = "returned")
    /\ [](Scanning => InOrder)
    /\ [](pc = "returned" => Len(results) = Len(COMMODITIES) /\ todo = <<>>)

\* a scan returned although the analyses of SILVER and ZINC raised; GOLD
\* before them and NICKEL after them were analysed
C15_Witness ==
    /\ pc = "returned"
    /\ failed = {"SILVER", "ZINC"}
    /\ Len(results) = 8
    /\ results[1].analysis.signal = "BUY"
    /\ results[2] = ErrorEntry("SILVER", "unexpected")
    /\ results[8].symbol = "NICKEL" /\ results[8].data_points = 25

====
